---- MODULE Spec2Model ----
(***************************************************************************)
(* Model of the native OpenGL GUI driver of IrrIMGUI                       *)
(* (source/COpenGLIMGUIDriver.cpp): the CGUITexture wrappers and their GPU *)
(* texture handles, the translation of the GUI draw lists into OpenGL      *)
(* calls, the OpenGL state save/restore and the pixel format conversion.   *)
(***************************************************************************)
EXTENDS Integers, Sequences, FiniteSets, TLC

(***************************************************************************)
(* Bounds of the model.                                                    *)
(***************************************************************************)
\* number of addresses "new CGUITexture()" can return
MaxTextures == 2
\* number of texture names glGenTextures can hand out besides Irrlicht's own
MaxNames == 2
\* largest Width and Height of a raw image handed to the conversion
MaxDim == 2
\* largest number of commands in one command list of the large draw data
MaxCmds == 3

\* the placeholder handle stored when the video driver is EDT_NULL
NullTextureID == 1

TextureAddrs == 1..MaxTextures
\* the raw data, ITexture and IImage objects of the caller, two of each kind
Pointers     == {1, 2}
\* texture names of the Irrlicht textures (COpenGLTexture::TextureName)
IrrNames     == {1, 2}
\* texture names glGenTextures may return
GenNames     == {2 + n : n \in 1..MaxNames}

EColorFormat == {"ECF_A8R8G8B8", "ECF_R8G8B8A8", "ECF_A8"}

\* 32 bit pixels are tuples of their four bytes, most significant byte first
Pixels == {<<255, 16, 32, 48>>, <<0, 1, 2, 3>>}
\* bytes of an 8 bit alpha image
Alphas == {<<0>>, <<255>>}

VARIABLES
    driverType,         \* getVideoDriver()->getDriverType()
    fastHandle,         \* built with _IRRIMGUI_FAST_OPENGL_TEXTURE_HANDLE_
    textures,           \* the live CGUITexture objects, by address
    mTextureInstances,  \* IIMGUIDriver::mTextureInstances
    glTextures,         \* texture names generated by the driver, not deleted
    gl,                 \* the OpenGL state the driver touches
    liveImages,         \* IImage pointers that point to a live IImage
    rawIn,              \* input of a direct call of the raw data helpers
    rawOut,             \* result of a direct call of the raw data helpers
    lastOp              \* what the last driver operation did

vars == <<driverType, fastHandle, textures, mTextureInstances, glTextures, gl,
          liveImages, rawIn, rawOut, lastOp>>

(***************************************************************************)
(* Irrlicht colours.                                                       *)
(***************************************************************************)
\* SColor::setData(data, ECF_A8R8G8B8): the 32 bit word is taken as it is
SColor_setData(word) == [alpha |-> word[1], red |-> word[2],
                         green |-> word[3], blue |-> word[4]]

toOpenGLColor_Swapped(c) == <<c.alpha, c.red, c.green, c.blue>>

\* SColor::toOpenGLColor(dest): dest[0..3] = red, green, blue, alpha
toOpenGLColor(c) == <<c.red, c.green, c.blue, c.alpha>>

(***************************************************************************)
(* The data behind the pointers a caller passes.                           *)
(***************************************************************************)
\* the raw image behind a raw data pointer
RawImage(p) ==
    IF p = 1
    THEN [ColorFormat |-> "ECF_A8R8G8B8", Width |-> 1, Height |-> 1,
          data |-> << <<255, 16, 32, 48>> >>]
    ELSE [ColorFormat |-> "ECF_A8", Width |-> 2, Height |-> 1,
          data |-> << <<0>>, <<255>> >>]

\* IImage::getDimension and IImage::getPixel of the image behind a pointer
IrrImage(p) == [Width |-> 1, Height |-> 1,
                pixels |-> << <<p, 16, 32, 48>> >>]

\* ITexture::getSize, getPitch, getColorFormat and lock of an Irrlicht texture
IrrTexture(p) == [Width |-> 1, Height |-> 2, Bytes |-> 4, Pitch |-> 4,
                  TextureName |-> p,
                  data |-> << <<255, p, 32, 48>>, <<0, p, 2, 3>> >>]

\* ImFontAtlas::GetTexDataAsAlpha8
FontTexData == [Width |-> 1, Height |-> 1, data |-> << <<255>> >>]

(***************************************************************************)
(* The OpenGL state machine, as far as the driver uses it.  A matrix is    *)
(* the sequence of the factors multiplied onto it since it was loaded; a   *)
(* matrix stack is a sequence with its top at the end.                     *)
(***************************************************************************)
Caps == {"GL_BLEND", "GL_LIGHTING", "GL_CULL_FACE", "GL_DEPTH_TEST",
         "GL_SCISSOR_TEST", "GL_TEXTURE_2D"}
ClientArrays == {"GL_VERTEX_ARRAY", "GL_TEXTURE_COORD_ARRAY", "GL_COLOR_ARRAY"}
MatrixModes == {"GL_MODELVIEW", "GL_PROJECTION", "GL_TEXTURE"}

Top(stack) == stack[Len(stack)]
Pop(stack) == SubSeq(stack, 1, Len(stack) - 1)

glEnable(g, cap) == [g EXCEPT !.enable[cap] = TRUE]
glDisable(g, cap) == [g EXCEPT !.enable[cap] = FALSE]
glEnableClientState(g, array) == [g EXCEPT !.clientState[array] = TRUE]
glDisableClientState(g, array) == [g EXCEPT !.clientState[array] = FALSE]
glBlendFunc(g, sfactor, dfactor) == [g EXCEPT !.blendFunc = <<sfactor, dfactor>>]
glMatrixMode(g, mode) == [g EXCEPT !.matrixMode = mode]
glLoadIdentity(g) ==
    [g EXCEPT !.stack[g.matrixMode] = Append(Pop(@), <<>>)]
glOrtho(g) ==
    [g EXCEPT !.stack[g.matrixMode] = Append(Pop(@), Append(Top(@), "ortho"))]
glPushMatrix(g) ==
    [g EXCEPT !.stack[g.matrixMode] = Append(@, Top(@))]
\* popping the last matrix of a stack is GL_STACK_UNDERFLOW and changes nothing
glPopMatrix(g) ==
    IF Len(g.stack[g.matrixMode]) > 1
    THEN [g EXCEPT !.stack[g.matrixMode] = Pop(@)]
    ELSE g
\* GL_ENABLE_BIT saves the enable flags, GL_COLOR_BUFFER_BIT the blend
\* function, GL_TRANSFORM_BIT the matrix mode
glPushAttrib(g, mask) ==
    [g EXCEPT !.attribStack =
        Append(@, [mask |-> mask, enable |-> g.enable,
                   blendFunc |-> g.blendFunc, matrixMode |-> g.matrixMode])]
glPopAttrib(g) ==
    IF g.attribStack = <<>> THEN g
    ELSE LET saved == Top(g.attribStack)
         IN [g EXCEPT
               !.attribStack = Pop(@),
               !.enable = IF "GL_ENABLE_BIT" \in saved.mask
                          THEN saved.enable ELSE @,
               !.blendFunc = IF "GL_COLOR_BUFFER_BIT" \in saved.mask
                             THEN saved.blendFunc ELSE @,
               !.matrixMode = IF "GL_TRANSFORM_BIT" \in saved.mask
                              THEN saved.matrixMode ELSE @]
glBindTexture(g, name) == [g EXCEPT !.boundTexture = name]

(***************************************************************************)
(* The state a driver operation works on: the driver's texture names, the  *)
(* OpenGL state, the calls issued so far, the IImage objects read so far,  *)
(* and whether every glGenTextures returned a name that was not in use.    *)
(***************************************************************************)
Begin == [tex |-> glTextures, gl |-> gl, calls |-> <<>>, reads |-> {},
          ok |-> TRUE]

Call(s, c) == [s EXCEPT !.calls = Append(@, c)]

\* glDeleteTextures(1, &name): a deleted texture that is bound is unbound
glDeleteTextures(s, name) ==
    [s EXCEPT !.tex = @ \ {name},
              !.gl.boundTexture = IF @ = name THEN 0 ELSE @,
              !.calls = Append(@, <<"glDeleteTextures", name, name \in s.tex>>)]

\* glGenTextures(1, &name): name is the name OpenGL hands out
glGenTextures(s, name) ==
    [s EXCEPT !.tex = @ \cup {name},
              !.ok = @ /\ name \notin (s.tex \cup IrrNames),
              !.calls = Append(@, <<"glGenTextures", name>>)]

glTexImage2D(s, format, Width, Height, pixels) ==
    Call(s, <<"glTexImage2D", s.gl.boundTexture, format, Width, Height, pixels>>)

Bind(s, name) ==
    [s EXCEPT !.gl = glBindTexture(@, name),
              !.calls = Append(@, <<"glBindTexture", name>>)]

(***************************************************************************)
(* Pixel format conversion and texture creation (namespace OpenGLHelper).  *)
(* C arrays start at index 0, sequences at 1.                              *)
(***************************************************************************)
\* the array left behind by a sequence of writes <<index, value>> to an
\* array of the given size whose cells were not initialised
Stored(size, writes) ==
    [i \in 1..size |->
        LET ks == {k \in 1..Len(writes) : writes[k][1] = i - 1}
        IN IF ks = {} THEN "uninitialised"
           ELSE writes[CHOOSE k \in ks : \A j \in ks : j <= k][2]]

copyARGBImageToRGBA_Transposed(pSource, Width, Height) ==
    [source |-> pSource,
     writes |-> [k \in 1..(Width * Height) |->
        LET X == (k - 1) \div Height
            Y == (k - 1) % Height
        IN <<X + Y * Width,
             toOpenGLColor(SColor_setData(pSource[Y + X * Height + 1]))>>]]

\* the writes to pDestination in the order of the loops (X outer, Y inner),
\* and the source array afterwards
copyARGBImageToRGBA(pSource, Width, Height) ==
    [source |-> pSource,
     writes |-> [k \in 1..(Width * Height) |->
        LET X == (k - 1) \div Height
            Y == (k - 1) % Height
        IN <<X + Y * Width,
             toOpenGLColor(SColor_setData(pSource[X + Y * Width + 1]))>>]]

createTextureInMemory(s, name, OpenGLColorFormat, pPixelData, Width, Height) ==
    LET OldTextureID == s.gl.boundTexture
        s1 == glGenTextures(s, name)
        s2 == Bind(s1, name)
        s3 == glTexImage2D(s2, OpenGLColorFormat, Width, Height, pPixelData)
    IN [s |-> Bind(s3, OldTextureID), id |-> name]

\* FASSERT(Expression): a failed assertion is signalled and control leaves
\* the function
FASSERT(s, Expression) ==
    [s |-> IF Expression THEN s ELSE Call(s, <<"FASSERT">>),
     threw |-> ~Expression]

createTextureIDFromRawData_AssertsAfterUpload(s, name, ColorFormat, pPixelData, Width, Height) ==
    LET r == createTextureInMemory(Call(s, <<"LOG_ERROR">>),
                name, IF ColorFormat = "ECF_R8G8B8A8" THEN "GL_RGBA" ELSE "GL_ALPHA",
                pPixelData, Width, Height)
        a == FASSERT(r.s, ColorFormat \in {"ECF_R8G8B8A8", "ECF_A8"})
    IN [s |-> a.s, id |-> r.id, caller |-> pPixelData, threw |-> a.threw]

createTextureIDFromRawData_InPlace(s, name, ColorFormat, pPixelData, Width, Height) ==
    LET conv == Stored(Width * Height,
                       copyARGBImageToRGBA(pPixelData, Width, Height).writes)
        data == IF ColorFormat = "ECF_A8R8G8B8" THEN conv ELSE pPixelData
        r == createTextureInMemory(s,
                name, IF ColorFormat = "ECF_A8" THEN "GL_ALPHA" ELSE "GL_RGBA",
                data, Width, Height)
    IN [s |-> r.s, id |-> r.id, caller |-> data, threw |-> FALSE]

\* caller: the caller's pixel buffer when the function returns
createTextureIDFromRawData(s, name, ColorFormat, pPixelData, Width, Height) ==
    CASE ColorFormat = "ECF_A8R8G8B8" ->
            LET s1 == Call(s, <<"new[]", Width * Height>>)
                copy == copyARGBImageToRGBA(pPixelData, Width, Height)
                pCopyImageData == Stored(Width * Height, copy.writes)
                r == createTextureInMemory(s1, name, "GL_RGBA", pCopyImageData,
                                           Width, Height)
            IN [s |-> Call(r.s, <<"delete[]", Width * Height>>), id |-> r.id,
                caller |-> copy.source, threw |-> FALSE]
      [] ColorFormat = "ECF_R8G8B8A8" ->
            LET r == createTextureInMemory(s, name, "GL_RGBA", pPixelData,
                                           Width, Height)
            IN [s |-> r.s, id |-> r.id, caller |-> pPixelData, threw |-> FALSE]
      [] ColorFormat = "ECF_A8" ->
            LET r == createTextureInMemory(s, name, "GL_ALPHA", pPixelData,
                                           Width, Height)
            IN [s |-> r.s, id |-> r.id, caller |-> pPixelData, threw |-> FALSE]
      [] OTHER ->
            LET a == FASSERT(Call(s, <<"LOG_ERROR">>), FALSE)
                r == createTextureInMemory(a.s, name, "GL_ALPHA", pPixelData,
                                           Width, Height)
            IN IF a.threw
               THEN [s |-> a.s, id |-> 0, caller |-> pPixelData, threw |-> TRUE]
               ELSE [s |-> r.s, id |-> r.id, caller |-> pPixelData,
                     threw |-> FALSE]

\* reads the IImage pixel by pixel
copyTextureIDFromIrrlichtImage(s, name, pImage) ==
    LET Width == IrrImage(pImage).Width
        Height == IrrImage(pImage).Height
        s1 == [Call(s, <<"new[]", Width * Height>>) EXCEPT !.reads = @ \cup {pImage}]
        writes == [k \in 1..(Width * Height) |->
            LET X == (k - 1) \div Height
                Y == (k - 1) % Height
            IN <<X + Y * Width,
                 toOpenGLColor(SColor_setData(IrrImage(pImage).pixels[X + Y * Width + 1]))>>]
        r == createTextureInMemory(s1, name, "GL_RGBA",
                                   Stored(Width * Height, writes), Width, Height)
    IN [s |-> Call(r.s, <<"delete[]", Width * Height>>), id |-> r.id]

\* locks the ITexture and reads it pixel by pixel
copyTextureIDFromIrrlichtTexture(s, name, pTexture) ==
    LET T == IrrTexture(pTexture)
        s1 == Call(Call(s, <<"new[]", T.Width * T.Height>>), <<"lock", pTexture>>)
        writes == [k \in 1..(T.Width * T.Height) |->
            LET X == (k - 1) \div T.Height
                Y == (k - 1) % T.Height
            IN <<X + Y * T.Width,
                 toOpenGLColor(SColor_setData(
                     T.data[((Y * T.Pitch + X * T.Bytes) \div T.Bytes) + 1]))>>]
        s2 == Call(s1, <<"unlock", pTexture>>)
        r == createTextureInMemory(s2, name, "GL_RGBA",
                                   Stored(T.Width * T.Height, writes),
                                   T.Width, T.Height)
    IN [s |-> Call(r.s, <<"delete[]", T.Width * T.Height>>), id |-> r.id]

\* the texture name Irrlicht holds for the ITexture; nothing is created
getTextureIDFromIrrlichtTexture(s, pTexture) ==
    [s |-> s, id |-> IrrTexture(pTexture).TextureName]

copyTextureIDFromGUIFont(s, name) ==
    LET s1 == Call(s, <<"GetTexDataAsAlpha8">>)
        r == createTextureIDFromRawData(s1, name, "ECF_A8", FontTexData.data,
                                        FontTexData.Width, FontTexData.Height)
    IN [s |-> Call(r.s, <<"ClearTexData">>), id |-> r.id]

deleteTextureFromMemory_OnlyInvalidates(s, t) ==
    [s |-> s, t |-> [t EXCEPT !.mIsValid = FALSE]]

deleteTextureFromMemory_NoOwnerCheck(s, t) ==
    [s |-> glDeleteTextures(s, t.mGPUTextureID),
     t |-> [t EXCEPT !.mIsValid = FALSE]]

deleteTextureFromMemory(s, t) ==
    [s |-> IF t.mIsUsingOwnMemory THEN glDeleteTextures(s, t.mGPUTextureID)
           ELSE s,
     t |-> [t EXCEPT !.mIsValid = FALSE]]

(***************************************************************************)
(* The texture operations of COpenGLIMGUIDriver.  a is the address of the  *)
(* CGUITexture, name the texture name glGenTextures hands out if the       *)
(* operation generates a texture.                                          *)
(***************************************************************************)
NoTexture == [mIsUsingOwnMemory |-> FALSE, mSourceType |-> "none",
              mSource |-> 0, mIsValid |-> FALSE, mGPUTextureID |-> 0]

IsNull == driverType = "EDT_NULL"

\* the effects of a finished operation on the OpenGL side and its record
\* recreate: whether the operation ran the body of "if(IsRecreateNecessary)";
\* src: the source pointer the caller passed to an updateTexture
Finish(s, op, a, recreate, src) ==
    /\ s.ok
    /\ glTextures' = s.tex
    /\ gl' = s.gl
    /\ lastOp' = [op |-> op, w |-> a, recreate |-> recreate, src |-> src,
                  data |-> <<>>, calls |-> s.calls, reads |-> s.reads]

\* new CGUITexture(): the addresses are handed out lowest first
New(a) == /\ a \in TextureAddrs \ DOMAIN textures
          /\ \A x \in TextureAddrs \ DOMAIN textures : a <= x

Put(a, t) == [x \in DOMAIN textures \cup {a} |-> IF x = a THEN t ELSE textures[x]]

createTexture_RawData(a, pPixelData, name) ==
    /\ New(a)
    /\ LET I == RawImage(pPixelData)
           r == IF ~IsNull
                THEN createTextureIDFromRawData(Begin, name, I.ColorFormat,
                                                I.data, I.Width, I.Height)
                ELSE [s |-> Begin, id |-> NullTextureID]
           t == [mIsUsingOwnMemory |-> TRUE, mSourceType |-> "ETST_RAWDATA",
                 mSource |-> pPixelData, mIsValid |-> TRUE,
                 mGPUTextureID |-> r.id]
       IN /\ Finish(r.s, "createTexture", a, FALSE, 0)
          /\ textures' = Put(a, t)
    /\ mTextureInstances' = mTextureInstances + 1
    /\ UNCHANGED <<driverType, fastHandle, liveImages, rawIn, rawOut>>

createTexture_ITexture_OwnsBorrowed(a, pTexture, name) ==
    /\ New(a)
    /\ LET r == IF IsNull THEN [s |-> Begin, id |-> NullTextureID]
                ELSE IF fastHandle
                THEN getTextureIDFromIrrlichtTexture(Begin, pTexture)
                ELSE copyTextureIDFromIrrlichtTexture(Begin, name, pTexture)
           t == [mIsUsingOwnMemory |-> TRUE,
                 mSourceType |-> "ETST_TEXTURE", mSource |-> pTexture,
                 mIsValid |-> TRUE, mGPUTextureID |-> r.id]
       IN /\ Finish(r.s, "createTexture", a, FALSE, 0)
          /\ textures' = Put(a, t)
    /\ mTextureInstances' = mTextureInstances + 1
    /\ UNCHANGED <<driverType, fastHandle, liveImages, rawIn, rawOut>>

createTexture_ITexture(a, pTexture, name) ==
    /\ New(a)
    /\ LET r == IF IsNull THEN [s |-> Begin, id |-> NullTextureID]
                ELSE IF fastHandle
                THEN getTextureIDFromIrrlichtTexture(Begin, pTexture)
                ELSE copyTextureIDFromIrrlichtTexture(Begin, name, pTexture)
           t == [mIsUsingOwnMemory |-> ~fastHandle,
                 mSourceType |-> "ETST_TEXTURE", mSource |-> pTexture,
                 mIsValid |-> TRUE, mGPUTextureID |-> r.id]
       IN /\ Finish(r.s, "createTexture", a, FALSE, 0)
          /\ textures' = Put(a, t)
    /\ mTextureInstances' = mTextureInstances + 1
    /\ UNCHANGED <<driverType, fastHandle, liveImages, rawIn, rawOut>>

createTexture_IImage(a, pImage, name) ==
    /\ New(a)
    /\ pImage \in liveImages
    /\ LET r == IF ~IsNull
                THEN copyTextureIDFromIrrlichtImage(Begin, name, pImage)
                ELSE [s |-> Begin, id |-> NullTextureID]
           t == [mIsUsingOwnMemory |-> TRUE, mSourceType |-> "ETST_IMAGE",
                 mSource |-> pImage, mIsValid |-> TRUE, mGPUTextureID |-> r.id]
       IN /\ Finish(r.s, "createTexture", a, FALSE, 0)
          /\ textures' = Put(a, t)
    /\ mTextureInstances' = mTextureInstances + 1
    /\ UNCHANGED <<driverType, fastHandle, liveImages, rawIn, rawOut>>

createFontTexture(a, name) ==
    /\ New(a)
    /\ LET r == IF ~IsNull
                THEN copyTextureIDFromGUIFont(Begin, name)
                ELSE [s |-> Call(Call(Begin, <<"GetTexDataAsAlpha8">>),
                                 <<"ClearTexData">>),
                      id |-> NullTextureID]
           t == [mIsUsingOwnMemory |-> TRUE, mSourceType |-> "ETST_GUIFONT",
                 mSource |-> 0, mIsValid |-> TRUE, mGPUTextureID |-> r.id]
       IN /\ Finish(Call(r.s, <<"Fonts->TexID", a>>), "createFontTexture", a,
                    FALSE, 0)
          /\ textures' = Put(a, t)
    /\ mTextureInstances' = mTextureInstances + 1
    /\ UNCHANGED <<driverType, fastHandle, liveImages, rawIn, rawOut>>

IsRecreateNecessary_IgnoresOwnMemory(t, kind, pSource) ==
    \/ t.mSourceType # kind
    \/ pSource # t.mSource

\* the decision at the head of each updateTexture
IsRecreateNecessary(t, kind, pSource) ==
    \/ t.mSourceType # kind
    \/ pSource # t.mSource
    \/ t.mIsUsingOwnMemory

updateTexture_RawData_KeepsOldID(a, pPixelData, name) ==
    /\ a \in DOMAIN textures
    /\ textures[a].mIsValid
    /\ LET I == RawImage(pPixelData)
           d == IF ~IsNull THEN deleteTextureFromMemory(Begin, textures[a])
                ELSE [s |-> Begin, t |-> textures[a]]
           r == IF ~IsNull
                THEN createTextureIDFromRawData(d.s, name, I.ColorFormat,
                                                I.data, I.Width, I.Height)
                ELSE [s |-> d.s, id |-> NullTextureID]
           t == [mIsUsingOwnMemory |-> TRUE, mSourceType |-> "ETST_RAWDATA",
                 mSource |-> pPixelData, mIsValid |-> TRUE,
                 mGPUTextureID |-> textures[a].mGPUTextureID]
       IN IF IsRecreateNecessary(textures[a], "ETST_RAWDATA", pPixelData)
          THEN /\ Finish(r.s, "updateTexture_ETST_RAWDATA", a, TRUE, pPixelData)
               /\ textures' = Put(a, t)
          ELSE /\ Finish(Begin, "updateTexture_ETST_RAWDATA", a, FALSE, pPixelData)
               /\ textures' = textures
    /\ UNCHANGED <<driverType, fastHandle, mTextureInstances, liveImages,
                   rawIn, rawOut>>

updateTexture_RawData(a, pPixelData, name) ==
    /\ a \in DOMAIN textures
    /\ textures[a].mIsValid
    /\ LET I == RawImage(pPixelData)
           d == IF ~IsNull THEN deleteTextureFromMemory(Begin, textures[a])
                ELSE [s |-> Begin, t |-> textures[a]]
           r == IF ~IsNull
                THEN createTextureIDFromRawData(d.s, name, I.ColorFormat,
                                                I.data, I.Width, I.Height)
                ELSE [s |-> d.s, id |-> NullTextureID]
           t == [mIsUsingOwnMemory |-> TRUE, mSourceType |-> "ETST_RAWDATA",
                 mSource |-> pPixelData, mIsValid |-> TRUE,
                 mGPUTextureID |-> r.id]
       IN IF IsRecreateNecessary(textures[a], "ETST_RAWDATA", pPixelData)
          THEN /\ Finish(r.s, "updateTexture_ETST_RAWDATA", a, TRUE, pPixelData)
               /\ textures' = Put(a, t)
          ELSE /\ Finish(Begin, "updateTexture_ETST_RAWDATA", a, FALSE, pPixelData)
               /\ textures' = textures
    /\ UNCHANGED <<driverType, fastHandle, mTextureInstances, liveImages,
                   rawIn, rawOut>>

updateTexture_ITexture(a, pTexture, name) ==
    /\ a \in DOMAIN textures
    /\ textures[a].mIsValid
    /\ LET d == IF ~IsNull THEN deleteTextureFromMemory(Begin, textures[a])
                ELSE [s |-> Begin, t |-> textures[a]]
           r == IF IsNull THEN [s |-> d.s, id |-> NullTextureID]
                ELSE IF fastHandle
                THEN getTextureIDFromIrrlichtTexture(d.s, pTexture)
                ELSE copyTextureIDFromIrrlichtTexture(d.s, name, pTexture)
           t == [mIsUsingOwnMemory |-> ~fastHandle,
                 mSourceType |-> "ETST_TEXTURE", mSource |-> pTexture,
                 mIsValid |-> TRUE, mGPUTextureID |-> r.id]
       IN IF IsRecreateNecessary(textures[a], "ETST_TEXTURE", pTexture)
          THEN /\ Finish(r.s, "updateTexture_ETST_TEXTURE", a, TRUE, pTexture)
               /\ textures' = Put(a, t)
          ELSE /\ Finish(Begin, "updateTexture_ETST_TEXTURE", a, FALSE, pTexture)
               /\ textures' = textures
    /\ UNCHANGED <<driverType, fastHandle, mTextureInstances, liveImages,
                   rawIn, rawOut>>

updateTexture_IImage_ReadsStored(a, pImage, name) ==
    /\ a \in DOMAIN textures
    /\ textures[a].mIsValid
    /\ pImage \in liveImages
    /\ LET d == IF ~IsNull THEN deleteTextureFromMemory(Begin, textures[a])
                ELSE [s |-> Begin, t |-> textures[a]]
           stored == IF textures[a].mSourceType = "ETST_IMAGE"
                     THEN textures[a].mSource ELSE pImage
           r == IF ~IsNull
                THEN copyTextureIDFromIrrlichtImage(d.s, name, stored)
                ELSE [s |-> d.s, id |-> NullTextureID]
           t == [mIsUsingOwnMemory |-> TRUE, mSourceType |-> "ETST_IMAGE",
                 mSource |-> pImage, mIsValid |-> TRUE, mGPUTextureID |-> r.id]
       IN IF IsRecreateNecessary(textures[a], "ETST_IMAGE", pImage)
          THEN /\ Finish(r.s, "updateTexture_ETST_IMAGE", a, TRUE, pImage)
               /\ textures' = Put(a, t)
          ELSE /\ Finish(Begin, "updateTexture_ETST_IMAGE", a, FALSE, pImage)
               /\ textures' = textures
    /\ UNCHANGED <<driverType, fastHandle, mTextureInstances, liveImages,
                   rawIn, rawOut>>

updateTexture_IImage(a, pImage, name) ==
    /\ a \in DOMAIN textures
    /\ textures[a].mIsValid
    /\ pImage \in liveImages
    /\ LET d == IF ~IsNull THEN deleteTextureFromMemory(Begin, textures[a])
                ELSE [s |-> Begin, t |-> textures[a]]
           r == IF ~IsNull
                THEN copyTextureIDFromIrrlichtImage(d.s, name, pImage)
                ELSE [s |-> d.s, id |-> NullTextureID]
           t == [mIsUsingOwnMemory |-> TRUE, mSourceType |-> "ETST_IMAGE",
                 mSource |-> pImage, mIsValid |-> TRUE, mGPUTextureID |-> r.id]
       IN IF IsRecreateNecessary(textures[a], "ETST_IMAGE", pImage)
          THEN /\ Finish(r.s, "updateTexture_ETST_IMAGE", a, TRUE, pImage)
               /\ textures' = Put(a, t)
          ELSE /\ Finish(Begin, "updateTexture_ETST_IMAGE", a, FALSE, pImage)
               /\ textures' = textures
    /\ UNCHANGED <<driverType, fastHandle, mTextureInstances, liveImages,
                   rawIn, rawOut>>

\* deleteTextureFromMemory is called whatever the driver type is
updateFontTexture(a, name) ==
    /\ a \in DOMAIN textures
    /\ textures[a].mIsValid
    /\ LET d == deleteTextureFromMemory(Begin, textures[a])
           r == IF ~IsNull
                THEN copyTextureIDFromGUIFont(d.s, name)
                ELSE [s |-> Call(Call(d.s, <<"GetTexDataAsAlpha8">>),
                                 <<"ClearTexData">>),
                      id |-> NullTextureID]
           t == [mIsUsingOwnMemory |-> TRUE, mSourceType |-> "ETST_GUIFONT",
                 mSource |-> 0, mIsValid |-> TRUE, mGPUTextureID |-> r.id]
       IN /\ Finish(Call(r.s, <<"Fonts->TexID", a>>), "updateFontTexture", a,
                    FALSE, 0)
          /\ textures' = Put(a, t)
    /\ UNCHANGED <<driverType, fastHandle, mTextureInstances, liveImages,
                   rawIn, rawOut>>

deleteTexture_KeepsWrapper(a) ==
    /\ a \in DOMAIN textures
    /\ textures[a].mIsValid
    /\ LET d == IF ~IsNull THEN deleteTextureFromMemory(Begin, textures[a])
                ELSE [s |-> Begin, t |-> textures[a]]
       IN /\ Finish(d.s, "deleteTexture", a, FALSE, 0)
          /\ textures' = Put(a, [d.t EXCEPT !.mIsValid = TRUE])
    /\ mTextureInstances' = mTextureInstances
    /\ UNCHANGED <<driverType, fastHandle, liveImages, rawIn, rawOut>>

deleteTexture(a) ==
    /\ a \in DOMAIN textures
    /\ textures[a].mIsValid
    /\ LET d == IF ~IsNull THEN deleteTextureFromMemory(Begin, textures[a])
                ELSE [s |-> Begin, t |-> textures[a]]
       IN /\ Finish(d.s, "deleteTexture", a, FALSE, 0)
          /\ textures' = [x \in DOMAIN textures \ {a} |-> textures[x]]
    /\ mTextureInstances' = mTextureInstances - 1
    /\ UNCHANGED <<driverType, fastHandle, liveImages, rawIn, rawOut>>

(***************************************************************************)
(* The caller's IImage objects: an IImage may be destroyed once the        *)
(* texture has been created from it, and a new one may take its address.   *)
(***************************************************************************)
NoOp(op) == [op |-> op, w |-> 0, recreate |-> FALSE, src |-> 0, data |-> <<>>,
             calls |-> <<>>, reads |-> {}]

destroyImage(pImage) ==
    /\ pImage \in liveImages
    /\ liveImages' = liveImages \ {pImage}
    /\ lastOp' = NoOp("destroyImage")
    /\ UNCHANGED <<driverType, fastHandle, textures, mTextureInstances,
                   glTextures, gl, rawIn, rawOut>>

createImage(pImage) ==
    /\ pImage \notin liveImages
    /\ liveImages' = liveImages \cup {pImage}
    /\ lastOp' = NoOp("createImage")
    /\ UNCHANGED <<driverType, fastHandle, textures, mTextureInstances,
                   glTextures, gl, rawIn, rawOut>>

(***************************************************************************)
(* Rendering: drawGUIList and drawCommandList.                             *)
(***************************************************************************)
\* ImGui::GetIO(): DisplaySize and DisplayFramebufferScale
GUIIO == [DisplaySize |-> [x |-> 800, y |-> 600],
          DisplayFramebufferScale |-> [x |-> 1, y |-> 1]]

\* the user callbacks of the model: one that leaves the OpenGL state alone
\* and one that pops the current matrix stack
UserCallback(s, pCommand) ==
    LET s1 == Call(s, <<"UserCallback", pCommand.UserCallback>>)
    IN IF pCommand.UserCallback = "glPopMatrix"
       THEN [s1 EXCEPT !.gl = glPopMatrix(@)]
       ELSE s1

\* one command of the loop of drawCommandList
drawCommand(s, pCommand, FirstIndexElement) ==
    LET FrameBufferHeight == GUIIO.DisplaySize.y * GUIIO.DisplayFramebufferScale.y
        pGUITexture == textures[pCommand.TextureId]
        R == pCommand.ClipRect
        s1 == Bind(s, pGUITexture.mGPUTextureID)
        s2 == Call(s1, <<"glScissor", R.x, FrameBufferHeight - R.w,
                         R.z - R.x, R.w - R.y>>)
    IN IF pCommand.UserCallback # "NULL"
       THEN UserCallback(s, pCommand)
       ELSE Call(s2, <<"glDrawElements", pCommand.ElemCount, FirstIndexElement>>)

RECURSIVE drawCommands_SkipsCallbackElems(_, _, _, _)
drawCommands_SkipsCallbackElems(s, CmdBuffer, CommandIndex, FirstIndexElement) ==
    IF CommandIndex > Len(CmdBuffer) THEN s
    ELSE drawCommands_SkipsCallbackElems(
            drawCommand(s, CmdBuffer[CommandIndex], FirstIndexElement),
            CmdBuffer, CommandIndex + 1,
            IF CmdBuffer[CommandIndex].UserCallback # "NULL"
            THEN FirstIndexElement
            ELSE FirstIndexElement + CmdBuffer[CommandIndex].ElemCount)

\* the loop of drawCommandList from command CommandIndex on
RECURSIVE drawCommands(_, _, _, _)
drawCommands(s, CmdBuffer, CommandIndex, FirstIndexElement) ==
    IF CommandIndex > Len(CmdBuffer) THEN s
    ELSE drawCommands(drawCommand(s, CmdBuffer[CommandIndex], FirstIndexElement),
                      CmdBuffer, CommandIndex + 1,
                      FirstIndexElement + CmdBuffer[CommandIndex].ElemCount)

drawCommandList(s, pCommandList) ==
    LET s1 == Call(Call(Call(s, <<"glVertexPointer">>), <<"glTexCoordPointer">>),
                   <<"glColorPointer">>)
    IN drawCommands(s1, pCommandList, 1, 0)

\* the constructor of COpenGLState: the OpenGL state afterwards and mOldTexture
COpenGLState_Store(g) ==
    LET g1 == glPushAttrib(g, {"GL_ENABLE_BIT", "GL_COLOR_BUFFER_BIT",
                               "GL_TRANSFORM_BIT"})
        g2 == glPushMatrix(glMatrixMode(g1, "GL_PROJECTION"))
        g3 == glPushMatrix(glMatrixMode(g2, "GL_MODELVIEW"))
    IN [gl |-> g3, mOldTexture |-> g.boundTexture]

COpenGLState_Restore_NoTexture(g, mOldTexture) ==
    LET g1 == glPopMatrix(glMatrixMode(g, "GL_MODELVIEW"))
        g2 == glPopMatrix(glMatrixMode(g1, "GL_PROJECTION"))
    IN glPopAttrib(g2)

\* the destructor of COpenGLState
COpenGLState_Restore(g, mOldTexture) ==
    LET g1 == glPopMatrix(glMatrixMode(g, "GL_MODELVIEW"))
        g2 == glPopMatrix(glMatrixMode(g1, "GL_PROJECTION"))
        g3 == glPopAttrib(g2)
    IN glBindTexture(g3, mOldTexture)

RECURSIVE drawCommandLists(_, _, _)
drawCommandLists(s, CmdLists, CommandListIndex) ==
    IF CommandListIndex > Len(CmdLists) THEN s
    ELSE drawCommandLists(drawCommandList(s, CmdLists[CommandListIndex]),
                          CmdLists, CommandListIndex + 1)

\* ImDrawData::ScaleClipRects
ScaleClipRects(pDrawData, scale) ==
    [l \in DOMAIN pDrawData |->
        [k \in DOMAIN pDrawData[l] |->
            [pDrawData[l][k] EXCEPT
                !.ClipRect = [x |-> @.x * scale.x, y |-> @.y * scale.y,
                              z |-> @.z * scale.x, w |-> @.w * scale.y]]]]

drawGUIList(s, pDrawData) ==
    LET OpenGLState == COpenGLState_Store(s.gl)
        g1 == glEnable(OpenGLState.gl, "GL_BLEND")
        g2 == glBlendFunc(g1, "GL_SRC_ALPHA", "GL_ONE_MINUS_SRC_ALPHA")
        g3 == glDisable(g2, "GL_LIGHTING")
        g4 == glDisable(g3, "GL_CULL_FACE")
        g5 == glDisable(g4, "GL_DEPTH_TEST")
        g6 == glEnable(g5, "GL_SCISSOR_TEST")
        g7 == glEnableClientState(g6, "GL_VERTEX_ARRAY")
        g8 == glEnableClientState(g7, "GL_TEXTURE_COORD_ARRAY")
        g9 == glEnableClientState(g8, "GL_COLOR_ARRAY")
        g10 == glEnable(g9, "GL_TEXTURE_2D")
        g11 == glOrtho(glLoadIdentity(glMatrixMode(g10, "GL_PROJECTION")))
        g12 == glLoadIdentity(glMatrixMode(g11, "GL_MODELVIEW"))
        s1 == drawCommandLists([s EXCEPT !.gl = g12],
                  ScaleClipRects(pDrawData, GUIIO.DisplayFramebufferScale), 1)
        g13 == glDisableClientState(s1.gl, "GL_COLOR_ARRAY")
        g14 == glDisableClientState(g13, "GL_TEXTURE_COORD_ARRAY")
        g15 == glDisableClientState(g14, "GL_VERTEX_ARRAY")
    IN [s1 EXCEPT !.gl = COpenGLState_Restore(g15, OpenGLState.mOldTexture)]

\* the draw commands the GUI library can emit for the textures texs
ClipRect == [x |-> 10, y |-> 20, z |-> 110, w |-> 70]

Commands(texs) ==
    [UserCallback : {"NULL"}, TextureId : texs, ElemCount : {3, 6},
     ClipRect : {ClipRect}]
    \cup [UserCallback : {"noop", "glPopMatrix"}, TextureId : {0},
          ElemCount : {3}, ClipRect : {ClipRect}]

CmdLists(texs, n) == UNION {[1..k -> Commands(texs)] : k \in 0..n}

\* draw data of one command list, or of two short ones
DrawData(texs) ==
    {<<>>} \cup {<<l>> : l \in CmdLists(texs, MaxCmds)}
           \cup {<<l1, l2>> : l1 \in CmdLists(texs, 1), l2 \in CmdLists(texs, 1)}

\* draw data of one command list of one command without callback
SmallDrawData(texs) ==
    {<< <<c>> >> : c \in {d \in Commands(texs) :
                            d.UserCallback = "NULL" /\ d.ElemCount = 3}}

Rendered(pDrawData) ==
    /\ LET s == drawGUIList(Begin, pDrawData)
       IN /\ glTextures' = s.tex
          /\ gl' = s.gl
          /\ lastOp' = [op |-> "drawGUIList", w |-> 0, recreate |-> FALSE,
                        src |-> 0, data |-> pDrawData, calls |-> s.calls,
                        reads |-> s.reads]
    /\ UNCHANGED <<driverType, fastHandle, textures, mTextureInstances,
                   liveImages, rawIn, rawOut>>

\* the GUI library renders a new frame that uses the live textures
drawGUIList_NewFrame ==
    \E pDrawData \in SmallDrawData(DOMAIN textures) : Rendered(pDrawData)

\* the frame the GUI library has built is rendered, any number of times
drawGUIList_Frame == Rendered(lastOp.data)

(***************************************************************************)
(* Direct calls of the raw data helpers on an input image.                 *)
(***************************************************************************)
NoRaw == [ColorFormat |-> "none", Width |-> 0, Height |-> 0, data |-> <<>>]
NoRawOut == [op |-> "none", before |-> <<>>, after |-> <<>>, writes |-> <<>>,
             id |-> 0, threw |-> FALSE]

Cells(ColorFormat) ==
    IF ColorFormat \in {"ECF_A8R8G8B8", "ECF_R8G8B8A8"} THEN Pixels ELSE Alphas

RawInputs ==
    UNION {UNION {UNION {
        {[ColorFormat |-> f, Width |-> w, Height |-> h, data |-> d] :
            d \in [1..(w * h) -> Cells(f)]}
        : h \in 0..MaxDim} : w \in 0..MaxDim}
        : f \in EColorFormat \cup {"ECF_INVALID"}}

call_copyARGBImageToRGBA ==
    /\ rawIn.ColorFormat = "ECF_A8R8G8B8"
    /\ LET r == copyARGBImageToRGBA(rawIn.data, rawIn.Width, rawIn.Height)
       IN /\ rawOut' = [op |-> "copyARGBImageToRGBA", before |-> rawIn.data,
                        after |-> r.source, writes |-> r.writes, id |-> 0,
                        threw |-> FALSE]
          /\ rawIn' = [rawIn EXCEPT !.data = r.source]
    /\ lastOp' = NoOp("copyARGBImageToRGBA")
    /\ UNCHANGED <<driverType, fastHandle, textures, mTextureInstances,
                   glTextures, gl, liveImages>>

call_createTextureIDFromRawData(name) ==
    /\ rawIn.ColorFormat # "none"
    /\ LET r == createTextureIDFromRawData(Begin, name, rawIn.ColorFormat,
                    rawIn.data, rawIn.Width, rawIn.Height)
       IN /\ Finish(r.s, "createTextureIDFromRawData", 0, FALSE, 0)
          /\ rawOut' = [op |-> "createTextureIDFromRawData",
                        before |-> rawIn.data, after |-> r.caller,
                        writes |-> <<>>, id |-> r.id, threw |-> r.threw]
          /\ rawIn' = [rawIn EXCEPT !.data = r.caller]
    /\ UNCHANGED <<driverType, fastHandle, textures, mTextureInstances, liveImages>>

(***************************************************************************)
(* Initial states and specifications.                                      *)
(***************************************************************************)
\* the OpenGL state of a fresh context
GLDefault ==
    [boundTexture |-> 0,
     enable |-> [c \in Caps |-> FALSE],
     blendFunc |-> <<"GL_ONE", "GL_ZERO">>,
     matrixMode |-> "GL_MODELVIEW",
     stack |-> [m \in MatrixModes |-> << <<m>> >>],
     attribStack |-> <<>>,
     clientState |-> [c \in ClientArrays |-> FALSE]]

\* the enable flags as drawGUIList sets them
GUIEnable == [c \in Caps |-> c \in {"GL_BLEND", "GL_SCISSOR_TEST", "GL_TEXTURE_2D"}]

\* OpenGL states an application can have set up when it renders the GUI
GLStates ==
    {[boundTexture |-> b,
      enable |-> e,
      blendFunc |-> IF deep THEN <<"GL_DST_COLOR", "GL_ZERO">>
                    ELSE <<"GL_ONE", "GL_ZERO">>,
      matrixMode |-> m,
      stack |-> [x \in MatrixModes |->
                    IF deep THEN << <<x>>, <<x, "scene">> >> ELSE << <<x>> >>],
      attribStack |-> IF deep
                      THEN << [mask |-> {"GL_ENABLE_BIT"}, enable |-> GUIEnable,
                               blendFunc |-> <<"GL_ONE", "GL_ONE">>,
                               matrixMode |-> "GL_TEXTURE"] >>
                      ELSE <<>>,
      clientState |-> [c \in ClientArrays |-> cs]] :
        b \in {0, 1},
        e \in {[c \in Caps |-> FALSE], [c \in Caps |-> TRUE], GUIEnable,
               [c \in Caps |-> ~GUIEnable[c]]},
        m \in MatrixModes, deep \in BOOLEAN, cs \in BOOLEAN}

Init ==
    /\ driverType \in {"EDT_OPENGL", "EDT_NULL"}
    /\ fastHandle \in BOOLEAN
    /\ textures = <<>>
    /\ mTextureInstances = 0
    /\ glTextures = {}
    /\ gl = GLDefault
    /\ liveImages = Pointers
    /\ rawIn = NoRaw
    /\ rawOut = NoRawOut
    /\ lastOp = NoOp("init")

Next ==
    \/ \E a \in TextureAddrs, p \in Pointers,
          name \in IF IsNull THEN {0} ELSE GenNames :
          \/ createTexture_RawData(a, p, name)
          \/ createTexture_ITexture(a, p, name)
          \/ createTexture_IImage(a, p, name)
          \/ updateTexture_RawData(a, p, name)
          \/ updateTexture_ITexture(a, p, name)
          \/ updateTexture_IImage(a, p, name)
    \/ \E a \in TextureAddrs, name \in IF IsNull THEN {0} ELSE GenNames :
          \/ createFontTexture(a, name)
          \/ updateFontTexture(a, name)
    \/ \E a \in TextureAddrs : deleteTexture(a)
    \/ drawGUIList_NewFrame

Spec == Init /\ [][Next]_vars

\* the same operations on an OpenGL video driver (built without the fast
\* texture handle), with a caller that destroys and creates IImage objects
InitImage == Init /\ driverType = "EDT_OPENGL" /\ ~fastHandle

NextImage ==
    \/ Next
    \/ \E p \in Pointers : destroyImage(p) \/ createImage(p)

SpecImage == InitImage /\ [][NextImage]_vars

\* two textures of the driver: one from raw data and the font texture
DrawTextures ==
    [a \in 1..2 |->
        [mIsUsingOwnMemory |-> TRUE,
         mSourceType |-> IF a = 1 THEN "ETST_RAWDATA" ELSE "ETST_GUIFONT",
         mSource |-> IF a = 1 THEN 1 ELSE 0,
         mIsValid |-> TRUE,
         mGPUTextureID |-> 2 + a]]

InitDraw ==
    /\ driverType = "EDT_OPENGL"
    /\ fastHandle = FALSE
    /\ textures = DrawTextures
    /\ mTextureInstances = 2
    /\ glTextures = {3, 4}
    /\ gl \in GLStates
    /\ liveImages = Pointers
    /\ rawIn = NoRaw
    /\ rawOut = NoRawOut
    /\ \E pDrawData \in DrawData(DOMAIN DrawTextures) :
          lastOp = [NoOp("Render") EXCEPT !.data = pDrawData]

NextDraw == drawGUIList_Frame

SpecDraw == InitDraw /\ [][NextDraw]_vars

InitRaw ==
    /\ driverType = "EDT_OPENGL"
    /\ fastHandle = FALSE
    /\ textures = <<>>
    /\ mTextureInstances = 0
    /\ glTextures = {}
    /\ gl = GLDefault
    /\ liveImages = Pointers
    /\ rawIn \in RawInputs
    /\ rawOut = NoRawOut
    /\ lastOp = NoOp("init")

NextRaw ==
    \/ call_copyARGBImageToRGBA
    \/ \E name \in GenNames : call_createTextureIDFromRawData(name)

SpecRaw == InitRaw /\ [][NextRaw]_vars

(***************************************************************************)
(* Properties of the texture bookkeeping.                                  *)
(***************************************************************************)
CallsOf(calls, f) == SelectSeq(calls, LAMBDA c : c[1] = f)

OwnTextures == {a \in DOMAIN textures : textures[a].mIsUsingOwnMemory}

UpdateOps == {"updateTexture_ETST_RAWDATA", "updateTexture_ETST_TEXTURE",
              "updateTexture_ETST_IMAGE"}

\* the source type an updateTexture sets
KindOf(op) == CASE op = "updateTexture_ETST_RAWDATA" -> "ETST_RAWDATA"
                [] op = "updateTexture_ETST_TEXTURE" -> "ETST_TEXTURE"
                [] op = "updateTexture_ETST_IMAGE" -> "ETST_IMAGE"

C3_DeletesOnlyOwnMemory ==
    [][\A k \in DOMAIN CallsOf(lastOp'.calls, "glDeleteTextures") :
          /\ lastOp'.w \in DOMAIN textures
          /\ textures[lastOp'.w].mIsUsingOwnMemory
          /\ CallsOf(lastOp'.calls, "glDeleteTextures")[k][2]
                = textures[lastOp'.w].mGPUTextureID
          /\ ~IsNull =>
                CallsOf(lastOp'.calls, "glDeleteTextures")[k][2] \notin IrrNames
      ]_vars

\* a wrapper that borrowed the texture name of an ITexture has been deleted
\* (deleteTexture issues no call at all) while another wrapper still borrows
C3_Witness ==
    /\ ~IsNull
    /\ fastHandle
    /\ lastOp.op = "deleteTexture"
    /\ lastOp.calls = <<>>
    /\ \E a \in DOMAIN textures : ~textures[a].mIsUsingOwnMemory

\* C4: an operation reads an IImage only if the caller passes it, as the
\* source of createTexture or updateTexture; the image a wrapper was created
\* from is not read again, so every image read is a live one
C4_ImageNotReadLater ==
    /\ lastOp.reads \subseteq liveImages
    /\ lastOp.reads # {} =>
          /\ lastOp.op \in {"createTexture", "updateTexture_ETST_IMAGE"}
          /\ lastOp.w \in DOMAIN textures
          /\ textures[lastOp.w].mSourceType = "ETST_IMAGE"
          /\ lastOp.reads = {textures[lastOp.w].mSource}

\* a texture is drawn whose IImage has been destroyed
C4_Witness ==
    /\ lastOp.op = "drawGUIList"
    /\ \E a \in DOMAIN textures :
          /\ textures[a].mSourceType = "ETST_IMAGE"
          /\ textures[a].mSource \notin liveImages
          /\ lastOp.data[1][1].TextureId = a

RECURSIVE Flatten(_)
Flatten(lists) ==
    IF lists = <<>> THEN <<>> ELSE Head(lists) \o Flatten(Tail(lists))

\* the commands of the draw data that have no user callback, in buffer order
DrawnCommands(pDrawData) ==
    SelectSeq(Flatten(pDrawData), LAMBDA c : c.UserCallback = "NULL")

NoCallbacks(pDrawData) == DrawnCommands(pDrawData) = Flatten(pDrawData)

\* C5: for draw data without user callbacks drawGUIList leaves the bound
\* texture, the enable flags, the blend function, the matrix mode, the
\* projection and modelview matrix stacks and the attribute stack as they
\* were when it was called
C5_StateRestored ==
    [][(lastOp'.op = "drawGUIList" /\ NoCallbacks(lastOp'.data)) =>
        /\ gl'.boundTexture = gl.boundTexture
        /\ gl'.enable = gl.enable
        /\ gl'.blendFunc = gl.blendFunc
        /\ gl'.matrixMode = gl.matrixMode
        /\ gl'.stack["GL_PROJECTION"] = gl.stack["GL_PROJECTION"]
        /\ gl'.stack["GL_MODELVIEW"] = gl.stack["GL_MODELVIEW"]
        /\ gl'.attribStack = gl.attribStack]_vars

\* commands without callbacks have been drawn in an OpenGL state that
\* differs from the one drawGUIList sets up in every restored item
C5_Witness ==
    /\ lastOp.op = "drawGUIList"
    /\ NoCallbacks(lastOp.data)
    /\ Len(DrawnCommands(lastOp.data)) >= 2
    /\ gl.boundTexture = 1
    /\ \A c \in Caps : gl.enable[c] = ~GUIEnable[c]
    /\ gl.blendFunc = <<"GL_DST_COLOR", "GL_ZERO">>
    /\ gl.matrixMode = "GL_TEXTURE"
    /\ Len(gl.stack["GL_PROJECTION"]) = 2
    /\ Len(gl.attribStack) = 1

RECURSIVE SumElemCount(_, _)
\* the sum of ElemCount over the first k commands of a command buffer
SumElemCount(CmdBuffer, k) ==
    IF k = 0 THEN 0
    ELSE CmdBuffer[k].ElemCount + SumElemCount(CmdBuffer, k - 1)

\* the calls command k of a command buffer is to issue
ExpectedOfCommand(CmdBuffer, k) ==
    IF CmdBuffer[k].UserCallback # "NULL"
    THEN << <<"UserCallback", CmdBuffer[k].UserCallback>> >>
    ELSE << <<"glBindTexture", textures[CmdBuffer[k].TextureId].mGPUTextureID>>,
            <<"glScissor">>,
            <<"glDrawElements", CmdBuffer[k].ElemCount,
              SumElemCount(CmdBuffer, k - 1)>> >>

RECURSIVE ExpectedOfCommands(_, _)
ExpectedOfCommands(CmdBuffer, k) ==
    IF k = 0 THEN <<>>
    ELSE ExpectedOfCommands(CmdBuffer, k - 1) \o ExpectedOfCommand(CmdBuffer, k)

RECURSIVE ExpectedOfLists(_)
ExpectedOfLists(lists) ==
    IF lists = <<>> THEN <<>>
    ELSE << <<"glVertexPointer">>, <<"glTexCoordPointer">>, <<"glColorPointer">> >>
         \o ExpectedOfCommands(Head(lists), Len(Head(lists)))
         \o ExpectedOfLists(Tail(lists))

\* a call without the arguments of glScissor
Shape(c) == IF c[1] = "glScissor" THEN <<"glScissor">> ELSE c

\* C6: the calls of drawGUIList are, list by list and command by command in
\* buffer order: for a command with a user callback the callback alone, for
\* any other command one bind, one scissor and one glDrawElements of
\* ElemCount indices starting at the sum of ElemCount of all earlier commands
C6_CommandsInOrder ==
    lastOp.op = "drawGUIList" =>
        /\ Len(lastOp.calls) = Len(ExpectedOfLists(lastOp.data))
        /\ \A k \in DOMAIN lastOp.calls :
              Shape(lastOp.calls[k]) = ExpectedOfLists(lastOp.data)[k]

\* a list has been drawn in which a command without callback follows a
\* command with a callback and another command without
C6_Witness ==
    /\ lastOp.op = "drawGUIList"
    /\ \E l \in DOMAIN lastOp.data :
          /\ Len(lastOp.data[l]) = 3
          /\ lastOp.data[l][1].UserCallback = "NULL"
          /\ lastOp.data[l][2].UserCallback # "NULL"
          /\ lastOp.data[l][3].UserCallback = "NULL"

\* C7: every command without a user callback binds the handle its wrapper
\* holds when the frame is drawn, and on a video driver other than EDT_NULL
\* the handle of a wrapper with its own memory is a texture the driver has
\* generated and not deleted
C7_DrawBindsCurrentHandle ==
    lastOp.op = "drawGUIList" =>
        LET cmds == DrawnCommands(lastOp.data)
            binds == CallsOf(lastOp.calls, "glBindTexture")
        IN /\ Len(binds) = Len(cmds)
           /\ \A k \in DOMAIN cmds :
                 LET t == textures[cmds[k].TextureId]
                 IN /\ binds[k][2] = t.mGPUTextureID
                    /\ (~IsNull /\ t.mIsUsingOwnMemory) =>
                          binds[k][2] \in glTextures

\* a wrapper created from raw data is drawn while a second texture of the
\* driver exists
C7_Witness ==
    /\ lastOp.op = "drawGUIList"
    /\ ~IsNull
    /\ Cardinality(glTextures) = 2
    /\ LET t == textures[lastOp.data[1][1].TextureId]
       IN /\ t.mIsUsingOwnMemory
          /\ t.mSourceType = "ETST_RAWDATA"
          /\ t.mGPUTextureID \in glTextures

(***************************************************************************)
(* Properties of the raw data helpers.                                     *)
(***************************************************************************)
\* the bytes red, green, blue, alpha of a pixel read as A8R8G8B8
RGBA(word) == <<word[2], word[3], word[4], word[1]>>

\* C9: copyARGBImageToRGBA writes every index 0..Width*Height-1 of the
\* destination once, with the bytes R, G, B, A of the source pixel of that
\* index, writes no other index and leaves the source as it was
C9_CopyARGBToRGBA ==
    rawOut.op = "copyARGBImageToRGBA" =>
        /\ \A i \in 0..(rawIn.Width * rawIn.Height - 1) :
              \E k \in DOMAIN rawOut.writes :
                 /\ rawOut.writes[k] = <<i, RGBA(rawOut.before[i + 1])>>
                 /\ \A j \in DOMAIN rawOut.writes :
                       rawOut.writes[j][1] = i => j = k
        /\ \A k \in DOMAIN rawOut.writes :
              rawOut.writes[k][1] \in 0..(rawIn.Width * rawIn.Height - 1)
        /\ rawOut.after = rawOut.before

\* an image of two columns and two rows with different pixels is converted
C9_Witness ==
    /\ rawOut.op = "copyARGBImageToRGBA"
    /\ rawIn.Width = 2
    /\ rawIn.Height = 2
    /\ rawOut.before[2] # rawOut.before[3]
    /\ Len(rawOut.writes) = 4

\* the calls that allocate, upload and free
MemoryCalls(calls) ==
    SelectSeq(calls, LAMBDA c : c[1] \in {"new[]", "glTexImage2D", "delete[]"})

\* C10: createTextureIDFromRawData uploads ECF_A8R8G8B8 data as GL_RGBA from
\* a converted copy that it allocates before and frees after the upload,
\* ECF_R8G8B8A8 data as GL_RGBA and ECF_A8 data as GL_ALPHA as they are and
\* without allocating, and leaves the caller's buffer as it was
C10_RawDataUpload ==
    (rawOut.op = "createTextureIDFromRawData"
        /\ rawIn.ColorFormat \in EColorFormat) =>
        LET n == rawIn.Width * rawIn.Height
            upload(format, pixels) ==
                <<"glTexImage2D", rawOut.id, format, rawIn.Width, rawIn.Height,
                  pixels>>
        IN /\ rawOut.after = rawOut.before
           /\ ~rawOut.threw
           /\ rawIn.ColorFormat = "ECF_A8R8G8B8" =>
                 MemoryCalls(lastOp.calls)
                   = << <<"new[]", n>>,
                        upload("GL_RGBA",
                               [i \in 1..n |-> RGBA(rawOut.before[i])]),
                        <<"delete[]", n>> >>
           /\ rawIn.ColorFormat = "ECF_R8G8B8A8" =>
                 MemoryCalls(lastOp.calls)
                   = << upload("GL_RGBA", rawOut.before) >>
           /\ rawIn.ColorFormat = "ECF_A8" =>
                 MemoryCalls(lastOp.calls)
                   = << upload("GL_ALPHA", rawOut.before) >>

\* an ECF_A8R8G8B8 image of more than one pixel has been uploaded
C10_Witness ==
    /\ rawOut.op = "createTextureIDFromRawData"
    /\ rawIn.ColorFormat = "ECF_A8R8G8B8"
    /\ rawIn.Width * rawIn.Height >= 2
    /\ rawOut.id \in glTextures
    /\ CallsOf(lastOp.calls, "delete[]") # <<>>

(***************************************************************************)
(* Further properties of the rendering, the bookkeeping and the helpers.   *)
(***************************************************************************)
\* C11: after drawGUIList each of the vertex, texture coordinate and colour
\* arrays is enabled if and only if it was enabled before the call
C11_ClientStateRestored ==
    [][lastOp'.op = "drawGUIList" => gl'.clientState = gl.clientState]_vars

\* the handles of the live wrappers that use their own memory
OwnHandles == {textures[a].mGPUTextureID : a \in OwnTextures}

\* the positions of the calls of f in a sequence of calls
IndexOf(calls, f) == {k \in DOMAIN calls : calls[k][1] = f}

C13_NullDriverNoGLCalls ==
    IsNull =>
        /\ \A k \in DOMAIN lastOp.calls :
              lastOp.calls[k][1] \notin
                 {"glGenTextures", "glTexImage2D", "glDeleteTextures"}
        /\ \A a \in DOMAIN textures :
              textures[a].mGPUTextureID = NullTextureID

\* C14: createTextureIDFromRawData with a colour format other than
\* ECF_A8R8G8B8, ECF_R8G8B8A8 and ECF_A8 fails its assertion, and has
\* generated no texture and uploaded no pixel data when it does
C14_UnknownFormatAsserts ==
    (rawOut.op = "createTextureIDFromRawData"
        /\ rawIn.ColorFormat \notin EColorFormat) =>
        /\ rawOut.threw
        /\ Len(CallsOf(lastOp.calls, "FASSERT")) = 1
        /\ IndexOf(lastOp.calls, "glGenTextures") = {}
        /\ IndexOf(lastOp.calls, "glTexImage2D") = {}
        /\ rawOut.id \notin glTextures

\* the function has been called with an unknown colour format on an image
\* that has pixels
C14_Witness ==
    /\ rawOut.op = "createTextureIDFromRawData"
    /\ rawIn.ColorFormat = "ECF_INVALID"
    /\ rawIn.Width * rawIn.Height >= 2
    /\ rawOut.threw
    /\ CallsOf(lastOp.calls, "LOG_ERROR") # <<>>

====
